---- MODULE Spec2Model ----
(***************************************************************************)
(* Model of the useDesignPreview hook                                      *)
(* (src/client/src/hooks/usedesignpreview.js): one mounted hook instance,  *)
(* its React state (design, loading, error, socket), the WebSocket and     *)
(* polling effects with their cleanups, the requests it has in flight and  *)
(* the value of isRealtime the consumer saw at the last render.            *)
(*                                                                         *)
(* The REST service (reached through the api client the hook imports) and  *)
(* the WebSocket peer are the environment: a request resolves or rejects,  *)
(* a socket opens, closes or fails, and the body                           *)
(* of a response or of a push message is drawn from a small set when it    *)
(* arrives.  A body is the flat JSON object of the REST interface,         *)
(* {area, revision}; a push message is a partial body that carries a       *)
(* revision.                                                               *)
(***************************************************************************)
EXTENDS Integers, FiniteSets, Sequences, Bags, TLC

\* ------------------------------------------------------------- bounds
MaxRev == 2
MaxArea == 2
MaxId == 2
MaxInFlight == 2

Revisions == 1..MaxRev
Areas == 1..MaxArea
DesignIds == 1..MaxId

\* ------------------------------------------------------------- values
\* useState(null) for design, error and socket
NullDesign == [null |-> TRUE]
NullError == "null"
NullSocket == [id |-> 0, readyState |-> "NONE", failing |-> FALSE]

\* response.data of GET/PATCH /designs/{id}: the full resource body
ResponseBodies == [area : Areas, revision : Revisions]
\* JSON.parse(event.data) of a push message: a partial body with a revision
PushUpdates == ResponseBodies \cup [revision : Revisions]
\* response.data of a service that leaves an unset area out of the body
SparseBodies == ResponseBodies \cup [revision : Revisions]

FetchKinds == {"mount", "init", "poll", "refresh"}
RequestKinds == FetchKinds \cup {"patch", "validate"}
Requests == [kind : RequestKinds, id : DesignIds]
NoRequest == [kind |-> "none", id |-> 0]
NoData == [none |-> TRUE]
\* response.data of POST /designs/{id}/validate: valid, or violations
ValidationResults == [valid : BOOLEAN]
\* err.response.status of a rejected api.get: the design does not exist, or
\* the server failed
NotFound == 404
FailureStatuses == {NotFound, 500}

VARIABLES
    mounted,          \* the component that called the hook is mounted
    designId,         \* argument designId of the current render
    autoUpdate,       \* options.autoUpdate of the current render
    enableRealtime,   \* options.enableRealtime of the current render
    design,           \* useState(null)
    loading,          \* useState(true)
    error,            \* useState(null)
    socket,           \* useState(null): the last WebSocket the effect created
    orphan,           \* a replaced socket, closed while connecting, that has its error event pending
    intervals,        \* ids whose fetchDesign an active setInterval timer calls
    inflight,         \* bag of requests awaiting their response
    isRealtime,       \* isRealtime as returned by the last render
    seeded,           \* a response body has been stored by setDesign(response.data)
    last              \* the event handled last: [op, req, data, prevRevision]

vars == <<mounted, designId, autoUpdate, enableRealtime, design, loading, error,
          socket, orphan, intervals, inflight, isRealtime, seeded, last>>

\* revision of the snapshot, 0 while it has none
RevisionOf(d) == IF d = NullDesign \/ "revision" \notin DOMAIN d THEN 0 ELSE d.revision

\* an event with the body it carried (NoData when it carried none) and the
\* revision the snapshot had when it arrived
Event(op, req, data) ==
    [op |-> op, req |-> req, data |-> data,
     prevRevision |-> IF data = NoData THEN 0 ELSE RevisionOf(design)]

\* ------------------------------------------------------------- helpers
\* {...prevDesign, ...update}: spreading null contributes no key
Spread(x) == IF x = NullDesign THEN [k \in {} |-> 0] ELSE x

\* (a handler that stores the message instead of merging it)
MergeUpdateReplacing(prevDesign, update) == update

\* (a handler that ignores messages until there is a snapshot)
MergeUpdateUnlessNull(prevDesign, update) ==
    IF prevDesign = NullDesign THEN prevDesign
    ELSE [k \in (DOMAIN prevDesign) \cup (DOMAIN update) |->
             IF k \in DOMAIN update THEN update[k] ELSE prevDesign[k]]

MergeUpdate(prevDesign, update) ==
    LET p == Spread(prevDesign)
    IN  [k \in (DOMAIN p) \cup (DOMAIN update) |->
            IF k \in DOMAIN update THEN update[k] ELSE p[k]]

\* !!socket && socket.readyState === WebSocket.OPEN
IsRealtime(s) == s # NullSocket /\ s.readyState = "OPEN"

\* (a cleanup that calls close() only on a socket that is open)
CloseSocketOnlyOpen(s) ==
    IF s.readyState = "OPEN" THEN [s EXCEPT !.readyState = "CLOSING"] ELSE s

\* WebSocket.close(): no effect once closing or closed; closing a socket that
\* is still connecting fails the connection, which fires its error event later
CloseSocket(s) ==
    IF s = NullSocket THEN s
    ELSE IF s.readyState = "CONNECTING"
         THEN [s EXCEPT !.readyState = "CLOSING", !.failing = TRUE]
    ELSE IF s.readyState = "OPEN"
         THEN [s EXCEPT !.readyState = "CLOSING"]
    ELSE s

\* The connection mode the consumer can tell from what the hook returns and
\* does: push while the last render returned isRealtime, poll while a
\* setInterval timer drives fetchDesign, disconnected otherwise
ConnectionMode(rendered, timers) ==
    IF rendered THEN "push"
    ELSE IF timers # {} THEN "poll"
    ELSE "disconnected"

\* what DesignPreview renders from the hook's design, loading and error: its
\* three early returns, then the preview of the design
DesignPreviewView(isLoading, err, d) ==
    IF isLoading THEN "loading"
    ELSE IF err # NullError THEN "error"
    ELSE IF d = NullDesign THEN "empty"
    ELSE "design"

\* new WebSocket(wsUrl)
NewSocket(id) == [id |-> id, readyState |-> "CONNECTING", failing |-> FALSE]

\* (a polling effect that ignores autoUpdate)
PollingWantedWithoutAuto(auto, realtime) == ~realtime

\* the polling effect creates a timer only in this case
PollingWanted(auto, realtime) == auto /\ ~realtime

InFlightCount == BagCardinality(inflight)
Send(r) == inflight (+) SetToBag({r})
Receive(r) == inflight (-) SetToBag({r})

\* ------------------------------------------------------------- Init
\* The state after the first render and its effects: the WebSocket effect has
\* created its socket (and setSocket has re-rendered), the polling effect its
\* timer, and the initial-fetch effect has called fetchDesign.
Init ==
    /\ mounted = TRUE
    /\ designId = 1
    /\ autoUpdate \in BOOLEAN
    /\ enableRealtime \in BOOLEAN
    /\ design = NullDesign
    /\ loading = TRUE
    /\ error = NullError
    /\ socket = IF enableRealtime THEN NewSocket(designId) ELSE NullSocket
    /\ orphan = FALSE
    /\ intervals = IF PollingWanted(autoUpdate, enableRealtime) THEN {designId} ELSE {}
    /\ inflight = SetToBag({[kind |-> "mount", id |-> designId]})
    /\ isRealtime = FALSE
    /\ seeded = FALSE
    /\ last = Event("mount", NoRequest, NoData)

\* ------------------------------------------------------------- fetchDesign
\* (a fetchDesign that merges the body into the previous snapshot)
FetchedDesignMerged(prevDesign, data) == MergeUpdate(prevDesign, data)

\* setDesign(response.data) of fetchDesign and of updateDesign
FetchedDesign(prevDesign, data) == data
PatchedDesign(prevDesign, data) == data

\* setLoading(true) re-renders only when loading was false
RenderedAfterSetLoading == IF loading THEN isRealtime ELSE IsRealtime(socket)

\* try branch of fetchDesign, then finally: the awaited api.get resolved
FetchResolve(r, data) ==
    /\ BagIn(r, inflight)
    /\ r.kind \in FetchKinds
    /\ inflight' = Receive(r)
    /\ IF mounted
       THEN /\ design' = FetchedDesign(design, data)
            /\ error' = NullError
            /\ loading' = FALSE
            /\ seeded' = TRUE
            /\ isRealtime' = IsRealtime(socket)
            /\ last' = Event("fetchOk", r, data)
       ELSE /\ UNCHANGED <<design, error, loading, seeded, isRealtime>>
            /\ last' = Event("unmounted", r, NoData)
    /\ UNCHANGED <<mounted, designId, autoUpdate, enableRealtime, socket, orphan, intervals>>

\* (a catch branch that also discards the snapshot: setDesign(null))
FetchRejectClearing(r) ==
    /\ BagIn(r, inflight)
    /\ r.kind \in FetchKinds
    /\ inflight' = Receive(r)
    /\ IF mounted
       THEN /\ error' = "FetchError"
            /\ loading' = FALSE
            /\ design' = NullDesign
            /\ isRealtime' = IsRealtime(socket)
            /\ \E status \in FailureStatuses :
                   last' = Event("fetchFail", r, [status |-> status])
       ELSE /\ UNCHANGED <<error, loading, design, isRealtime>>
            /\ last' = Event("unmounted", r, NoData)
    /\ UNCHANGED <<mounted, designId, autoUpdate, enableRealtime, seeded,
                   socket, orphan, intervals>>

\* (a catch branch that also stops the poll timer of the failed fetch)
FetchRejectStopping(r) ==
    /\ BagIn(r, inflight)
    /\ r.kind \in FetchKinds
    /\ inflight' = Receive(r)
    /\ IF mounted
       THEN /\ error' = "FetchError"
            /\ loading' = FALSE
            /\ intervals' = intervals \ {r.id}
            /\ isRealtime' = IsRealtime(socket)
            /\ \E status \in FailureStatuses :
                   last' = Event("fetchFail", r, [status |-> status])
       ELSE /\ UNCHANGED <<error, loading, intervals, isRealtime>>
            /\ last' = Event("unmounted", r, NoData)
    /\ UNCHANGED <<mounted, designId, autoUpdate, enableRealtime, design, seeded,
                   socket, orphan>>

\* catch branch of fetchDesign, then finally: the awaited api.get rejected, with
\* the HTTP status of the failure (the catch branch does not read it)
FetchReject(r) ==
    /\ BagIn(r, inflight)
    /\ r.kind \in FetchKinds
    /\ inflight' = Receive(r)
    /\ IF mounted
       THEN /\ error' = "FetchError"
            /\ loading' = FALSE
            /\ isRealtime' = IsRealtime(socket)
            /\ \E status \in FailureStatuses :
                   last' = Event("fetchFail", r, [status |-> status])
       ELSE /\ UNCHANGED <<error, loading, isRealtime>>
            /\ last' = Event("unmounted", r, NoData)
    /\ UNCHANGED <<mounted, designId, autoUpdate, enableRealtime, design, seeded,
                   socket, orphan, intervals>>

\* ------------------------------------------------------------- WebSocket
\* newSocket.onmessage: a message event is delivered only while the socket is open
OnMessage(update) ==
    /\ mounted
    /\ socket # NullSocket
    /\ socket.readyState = "OPEN"
    /\ design' = MergeUpdate(design, update)
    /\ isRealtime' = IsRealtime(socket)
    /\ last' = Event("push", [kind |-> "push", id |-> socket.id], update)
    /\ UNCHANGED <<mounted, designId, autoUpdate, enableRealtime, loading, error,
                   socket, orphan, intervals, inflight, seeded>>

\* event.data of a message that is not the JSON object of the protocol:
\* text that is no JSON, or the JSON of a string, an array, a number, null
MalformedMessages == {"garbage", "string", "array", "number", "null"}

\* JSON.parse(event.data) returns a value, or throws a SyntaxError
Parses(m) == m # "garbage"

\* the own enumerable properties the spread ...update copies from the parsed
\* value: the index keys of a string ("x") or of an array (["x"]), none of a
\* number or of null
OwnProperties(m) ==
    IF m \in {"string", "array"} THEN [k \in {"0"} |-> "x"] ELSE [k \in {} |-> 0]

\* newSocket.onmessage for such a message: when JSON.parse throws, the handler
\* ends before setDesign; otherwise the parsed value is spread over the
\* previous snapshot like any update
OnMalformedMessage(m) ==
    /\ mounted
    /\ socket # NullSocket
    /\ socket.readyState = "OPEN"
    /\ IF Parses(m)
       THEN /\ design' = MergeUpdate(design, OwnProperties(m))
            /\ isRealtime' = IsRealtime(socket)
       ELSE UNCHANGED <<design, isRealtime>>
    /\ last' = Event("malformed", [kind |-> "push", id |-> socket.id], [shape |-> m])
    /\ UNCHANGED <<mounted, designId, autoUpdate, enableRealtime, loading, error,
                   socket, orphan, intervals, inflight, seeded>>

\* the connection is established: the hook sets no onopen handler
SocketOpen ==
    /\ socket # NullSocket
    /\ socket.readyState = "CONNECTING"
    /\ socket' = [socket EXCEPT !.readyState = "OPEN"]
    /\ last' = Event("wsOpen", NoRequest, NoData)
    /\ UNCHANGED <<mounted, designId, autoUpdate, enableRealtime, design, loading,
                   error, orphan, intervals, inflight, isRealtime, seeded>>

\* the connection ends cleanly (the peer closes it, or the closing handshake
\* completes): the hook sets no onclose handler
SocketClose ==
    /\ socket # NullSocket
    /\ socket.readyState \in {"OPEN", "CLOSING"}
    /\ ~socket.failing
    /\ socket' = [socket EXCEPT !.readyState = "CLOSED"]
    /\ last' = Event("wsClose", NoRequest, NoData)
    /\ UNCHANGED <<mounted, designId, autoUpdate, enableRealtime, design, loading,
                   error, orphan, intervals, inflight, isRealtime, seeded>>

\* newSocket.onerror: the connection failed; readyState is CLOSED when the
\* error event fires
OnError ==
    /\ socket # NullSocket
    /\ \/ socket.readyState \in {"CONNECTING", "OPEN"}
       \/ socket.readyState = "CLOSING" /\ socket.failing
    /\ socket' = [socket EXCEPT !.readyState = "CLOSED", !.failing = FALSE]
    /\ IF mounted
       THEN /\ error' = "WsError"
            /\ isRealtime' = IsRealtime(socket')
       ELSE UNCHANGED <<error, isRealtime>>
    /\ last' = Event("wsError", NoRequest, NoData)
    /\ UNCHANGED <<mounted, designId, autoUpdate, enableRealtime, design, loading,
                   orphan, intervals, inflight, seeded>>

\* onerror of a socket the effect has already replaced
OnOrphanError ==
    /\ orphan
    /\ orphan' = FALSE
    /\ IF mounted
       THEN /\ error' = "WsError"
            /\ isRealtime' = IsRealtime(socket)
       ELSE UNCHANGED <<error, isRealtime>>
    /\ last' = Event("wsOrphanError", NoRequest, NoData)
    /\ UNCHANGED <<mounted, designId, autoUpdate, enableRealtime, design, loading,
                   socket, intervals, inflight, seeded>>

\* ------------------------------------------------------------- polling, refresh, updateDesign
\* setInterval(fetchDesign, updateInterval) fires: fetchDesign() is called
PollTick(id) ==
    /\ id \in intervals
    /\ InFlightCount < MaxInFlight
    /\ inflight' = Send([kind |-> "poll", id |-> id])
    /\ last' = Event("tick", [kind |-> "poll", id |-> id], NoData)
    /\ UNCHANGED <<mounted, designId, autoUpdate, enableRealtime, design, loading,
                   error, socket, orphan, intervals, isRealtime, seeded>>

\* refresh(): setLoading(true); fetchDesign()
Refresh ==
    /\ mounted
    /\ InFlightCount < MaxInFlight
    /\ loading' = TRUE
    /\ inflight' = Send([kind |-> "refresh", id |-> designId])
    /\ isRealtime' = RenderedAfterSetLoading
    /\ last' = Event("refresh", [kind |-> "refresh", id |-> designId], NoData)
    /\ UNCHANGED <<mounted, designId, autoUpdate, enableRealtime, design, error,
                   socket, orphan, intervals, seeded>>

\* updateDesign(updates) up to its await: api.patch is sent
UpdateDesign ==
    /\ mounted
    /\ InFlightCount < MaxInFlight
    /\ inflight' = Send([kind |-> "patch", id |-> designId])
    /\ last' = Event("patch", [kind |-> "patch", id |-> designId], NoData)
    /\ UNCHANGED <<mounted, designId, autoUpdate, enableRealtime, design, loading,
                   error, socket, orphan, intervals, isRealtime, seeded>>

\* try branch of updateDesign: the awaited api.patch resolved
PatchResolve(r, data) ==
    /\ BagIn(r, inflight)
    /\ r.kind = "patch"
    /\ inflight' = Receive(r)
    /\ IF mounted
       THEN /\ design' = PatchedDesign(design, data)
            /\ seeded' = TRUE
            /\ isRealtime' = IsRealtime(socket)
            /\ last' = Event("patchOk", r, data)
       ELSE /\ UNCHANGED <<design, seeded, isRealtime>>
            /\ last' = Event("unmounted", r, NoData)
    /\ UNCHANGED <<mounted, designId, autoUpdate, enableRealtime, loading, error,
                   socket, orphan, intervals>>

\* (a catch branch that rethrows without setError(err))
PatchRejectSilent(r) ==
    /\ BagIn(r, inflight)
    /\ r.kind = "patch"
    /\ inflight' = Receive(r)
    /\ last' = Event(IF mounted THEN "patchFail" ELSE "unmounted", r, NoData)
    /\ UNCHANGED <<mounted, designId, autoUpdate, enableRealtime, design, loading,
                   error, socket, orphan, intervals, isRealtime, seeded>>

\* catch branch of updateDesign: the awaited api.patch rejected
PatchReject(r) ==
    /\ BagIn(r, inflight)
    /\ r.kind = "patch"
    /\ inflight' = Receive(r)
    /\ IF mounted
       THEN /\ error' = "PatchError"
            /\ isRealtime' = IsRealtime(socket)
            /\ last' = Event("patchFail", r, NoData)
       ELSE /\ UNCHANGED <<error, isRealtime>>
            /\ last' = Event("unmounted", r, NoData)
    /\ UNCHANGED <<mounted, designId, autoUpdate, enableRealtime, design, loading,
                   socket, orphan, intervals, seeded>>

\* ------------------------------------------------------------- validateChanges
\* validateChanges(changes) up to its await: api.post .../validate is sent
ValidateChanges ==
    /\ mounted
    /\ InFlightCount < MaxInFlight
    /\ inflight' = Send([kind |-> "validate", id |-> designId])
    /\ last' = Event("validate", [kind |-> "validate", id |-> designId], NoData)
    /\ UNCHANGED <<mounted, designId, autoUpdate, enableRealtime, design, loading,
                   error, socket, orphan, intervals, isRealtime, seeded>>

\* (a try branch that discards the snapshot when the response reports violations)
ValidateResolveClearing(r, result) ==
    /\ BagIn(r, inflight)
    /\ r.kind = "validate"
    /\ inflight' = Receive(r)
    /\ design' = IF mounted /\ ~result.valid THEN NullDesign ELSE design
    /\ last' = IF mounted THEN Event("validateOk", r, result)
                        ELSE Event("unmounted", r, NoData)
    /\ UNCHANGED <<mounted, designId, autoUpdate, enableRealtime, loading,
                   error, socket, orphan, intervals, isRealtime, seeded>>

\* try branch of validateChanges: the awaited api.post resolved and
\* response.data is returned to the caller; no state is set
ValidateResolve(r, result) ==
    /\ BagIn(r, inflight)
    /\ r.kind = "validate"
    /\ inflight' = Receive(r)
    /\ last' = IF mounted THEN Event("validateOk", r, result)
                        ELSE Event("unmounted", r, NoData)
    /\ UNCHANGED <<mounted, designId, autoUpdate, enableRealtime, design, loading,
                   error, socket, orphan, intervals, isRealtime, seeded>>

\* catch branch of validateChanges: the awaited api.post rejected
ValidateReject(r) ==
    /\ BagIn(r, inflight)
    /\ r.kind = "validate"
    /\ inflight' = Receive(r)
    /\ IF mounted
       THEN /\ error' = "ValidateError"
            /\ isRealtime' = IsRealtime(socket)
            /\ last' = Event("validateFail", r, NoData)
       ELSE /\ UNCHANGED <<error, isRealtime>>
            /\ last' = Event("unmounted", r, NoData)
    /\ UNCHANGED <<mounted, designId, autoUpdate, enableRealtime, design, loading,
                   socket, orphan, intervals, seeded>>

\* ------------------------------------------------------------- effects
\* cleanup of the WebSocket effect: it exists only when the effect ran past its
\* early return, and closes the socket that run created
\* (a cleanup that forgets newSocket.close())
SocketCleanupNoClose(s, realtime) == s

SocketCleanup(s, realtime) == IF realtime THEN CloseSocket(s) ELSE s

\* (a polling effect that returns no cleanup)
PollCleanupNoClear(timers, id, auto, realtime) == timers

\* cleanup of the polling effect: clearInterval(intervalId) of the timer the
\* effect created for the fetchDesign of id
PollCleanup(timers, id, auto, realtime) ==
    IF PollingWanted(auto, realtime) THEN timers \ {id} ELSE timers

\* (a polling effect without its early return)
PollEffectUnguarded(timers, id, auto, realtime) == timers \cup {id}

\* body of the polling effect
PollEffect(timers, id, auto, realtime) ==
    IF PollingWanted(auto, realtime) THEN timers \cup {id} ELSE timers

\* (a hook that resets its snapshot and loading when designId changes)
RerenderResetting(newId, newAuto, newRealtime) ==
    LET wsRerun == newId # designId \/ newRealtime # enableRealtime
        pollRerun == wsRerun \/ newAuto # autoUpdate
        closed == SocketCleanup(socket, enableRealtime)
        replaced == wsRerun /\ newRealtime
    IN  /\ mounted
        /\ <<newId, newAuto, newRealtime>> # <<designId, autoUpdate, enableRealtime>>
        /\ newId # designId => InFlightCount < MaxInFlight
        /\ ~(replaced /\ closed.failing /\ orphan)
        /\ designId' = newId
        /\ autoUpdate' = newAuto
        /\ enableRealtime' = newRealtime
        /\ socket' = IF ~wsRerun THEN socket
                     ELSE IF newRealtime THEN NewSocket(newId) ELSE closed
        /\ orphan' = IF replaced /\ closed.failing THEN TRUE ELSE orphan
        /\ intervals' = IF pollRerun
                        THEN PollEffect(PollCleanup(intervals, designId, autoUpdate, enableRealtime),
                                        newId, newAuto, newRealtime)
                        ELSE intervals
        /\ inflight' = IF newId # designId
                       THEN Send([kind |-> "init", id |-> newId])
                       ELSE inflight
        /\ isRealtime' = IF replaced THEN IsRealtime(NewSocket(newId)) ELSE IsRealtime(socket)
        /\ last' = Event("props", NoRequest,
                         IF replaced THEN [released |-> closed.readyState] ELSE NoData)
        /\ design' = IF newId # designId THEN NullDesign ELSE design
        /\ loading' = IF newId # designId THEN TRUE ELSE loading
        /\ UNCHANGED <<mounted, error, seeded>>

\* The consumer renders the hook with other arguments.  The render returns
\* isRealtime from the socket state; then the effects whose dependencies
\* changed run their cleanup and their body; setSocket(newSocket) renders again.
\* The event records the state in which the cleanup left the socket that the
\* effect then replaced.
Rerender(newId, newAuto, newRealtime) ==
    LET wsRerun == newId # designId \/ newRealtime # enableRealtime
        pollRerun == wsRerun \/ newAuto # autoUpdate
        closed == SocketCleanup(socket, enableRealtime)
        replaced == wsRerun /\ newRealtime
    IN  /\ mounted
        /\ <<newId, newAuto, newRealtime>> # <<designId, autoUpdate, enableRealtime>>
        /\ newId # designId => InFlightCount < MaxInFlight
        /\ ~(replaced /\ closed.failing /\ orphan)
        /\ designId' = newId
        /\ autoUpdate' = newAuto
        /\ enableRealtime' = newRealtime
        /\ socket' = IF ~wsRerun THEN socket
                     ELSE IF newRealtime THEN NewSocket(newId) ELSE closed
        /\ orphan' = IF replaced /\ closed.failing THEN TRUE ELSE orphan
        /\ intervals' = IF pollRerun
                        THEN PollEffect(PollCleanup(intervals, designId, autoUpdate, enableRealtime),
                                        newId, newAuto, newRealtime)
                        ELSE intervals
        /\ inflight' = IF newId # designId
                       THEN Send([kind |-> "init", id |-> newId])
                       ELSE inflight
        /\ isRealtime' = IF replaced THEN IsRealtime(NewSocket(newId)) ELSE IsRealtime(socket)
        /\ last' = Event("props", NoRequest,
                         IF replaced THEN [released |-> closed.readyState] ELSE NoData)
        /\ UNCHANGED <<mounted, design, loading, error, seeded>>

\* The consumer unmounts: both cleanups run, and React discards the state of
\* the instance (shown here as the useState initial values); the requests in
\* flight and the sockets live on
Unmount ==
    /\ mounted
    /\ mounted' = FALSE
    /\ socket' = SocketCleanup(socket, enableRealtime)
    /\ intervals' = PollCleanup(intervals, designId, autoUpdate, enableRealtime)
    /\ design' = NullDesign
    /\ loading' = TRUE
    /\ error' = NullError
    /\ isRealtime' = FALSE
    /\ seeded' = FALSE
    /\ last' = Event("unmount", NoRequest, NoData)
    /\ UNCHANGED <<designId, autoUpdate, enableRealtime, orphan, inflight>>

\* The two cleanup closures are called once more after the unmount
TeardownAgain ==
    /\ ~mounted
    /\ socket' = SocketCleanup(socket, enableRealtime)
    /\ intervals' = PollCleanup(intervals, designId, autoUpdate, enableRealtime)
    /\ last' = Event("teardown", NoRequest, NoData)
    /\ UNCHANGED <<mounted, designId, autoUpdate, enableRealtime, design, loading,
                   error, orphan, inflight, isRealtime, seeded>>

\* ------------------------------------------------------------- specification
FetchDone == \E r \in Requests :
                 \/ \E data \in ResponseBodies : FetchResolve(r, data)
                 \/ FetchReject(r)

PatchDone == \E r \in Requests :
                 \/ \E data \in ResponseBodies : PatchResolve(r, data)
                 \/ PatchReject(r)

Next ==
    \/ \E r \in Requests, data \in ResponseBodies : FetchResolve(r, data)
    \/ \E r \in Requests : FetchReject(r)
    \/ \E update \in PushUpdates : OnMessage(update)
    \/ SocketOpen
    \/ SocketClose
    \/ OnError
    \/ OnOrphanError
    \/ \E id \in DesignIds : PollTick(id)
    \/ Refresh
    \/ UpdateDesign
    \/ \E r \in Requests, data \in ResponseBodies : PatchResolve(r, data)
    \/ \E r \in Requests : PatchReject(r)
    \/ \E newId \in DesignIds, newAuto \in BOOLEAN, newRealtime \in BOOLEAN :
           Rerender(newId, newAuto, newRealtime)
    \/ Unmount
    \/ TeardownAgain

Spec == Init /\ [][Next]_vars

\* setInterval keeps firing while its timer is active, and an awaited request
\* settles
LiveSpec ==
    /\ Spec
    /\ \A id \in DesignIds : WF_vars(PollTick(id))
    /\ WF_vars(FetchDone)
    /\ WF_vars(PatchDone)

\* The hook under the arguments of its first render, with validateChanges
\* among the calls the consumer makes
ValidateNext ==
    \/ ValidateChanges
    \/ \E r \in Requests, result \in ValidationResults : ValidateResolve(r, result)
    \/ \E r \in Requests : ValidateReject(r)
    \/ \E r \in Requests, data \in ResponseBodies : FetchResolve(r, data)
    \/ \E r \in Requests : FetchReject(r)
    \/ \E update \in PushUpdates : OnMessage(update)
    \/ SocketOpen
    \/ SocketClose
    \/ OnError
    \/ \E id \in DesignIds : PollTick(id)
    \/ Refresh
    \/ UpdateDesign
    \/ \E r \in Requests, data \in ResponseBodies : PatchResolve(r, data)
    \/ \E r \in Requests : PatchReject(r)
    \/ Unmount

ValidateSpec == Init /\ [][ValidateNext]_vars

\* The hook under the arguments of its first render, with a WebSocket peer
\* that may also send messages outside the protocol
DecodeNext ==
    \/ \E m \in MalformedMessages : OnMalformedMessage(m)
    \/ \E update \in PushUpdates : OnMessage(update)
    \/ SocketOpen
    \/ SocketClose
    \/ OnError
    \/ \E r \in Requests, data \in ResponseBodies : FetchResolve(r, data)
    \/ \E r \in Requests : FetchReject(r)
    \/ Refresh

DecodeSpec == Init /\ [][DecodeNext]_vars

\* The hook under the arguments of its first render, with a REST service
\* whose bodies may leave the area out
SparseNext ==
    \/ \E r \in Requests, data \in SparseBodies : FetchResolve(r, data)
    \/ \E r \in Requests : FetchReject(r)
    \/ \E update \in PushUpdates : OnMessage(update)
    \/ SocketOpen
    \/ SocketClose
    \/ OnError
    \/ \E id \in DesignIds : PollTick(id)
    \/ Refresh

SparseSpec == Init /\ [][SparseNext]_vars

\* The hook under the arguments of its first render with its poll timer.  An
\* active setInterval timer fires again and again whatever else happens (the
\* cap on the requests in flight is a bound of the model, not of the timer),
\* and an awaited request settles.
PollNext ==
    \/ \E id \in DesignIds : PollTick(id)
    \/ \E r \in Requests, data \in ResponseBodies : FetchResolve(r, data)
    \/ \E r \in Requests : FetchReject(r)
    \/ Refresh
    \/ SocketOpen
    \/ \E update \in PushUpdates : OnMessage(update)
    \/ Unmount

PollLiveSpec ==
    /\ Init
    /\ [][PollNext]_vars
    /\ \A id \in DesignIds : SF_vars(PollTick(id))
    /\ WF_vars(FetchDone)

\* The hook under the arguments of its first render: every handler and call,
\* and the unmount, but no render with other arguments
FixedArgsNext ==
    \/ \E r \in Requests, data \in ResponseBodies : FetchResolve(r, data)
    \/ \E r \in Requests : FetchReject(r)
    \/ \E update \in PushUpdates : OnMessage(update)
    \/ SocketOpen
    \/ SocketClose
    \/ OnError
    \/ \E id \in DesignIds : PollTick(id)
    \/ Refresh
    \/ UpdateDesign
    \/ \E r \in Requests, data \in ResponseBodies : PatchResolve(r, data)
    \/ \E r \in Requests : PatchReject(r)
    \/ Unmount
    \/ TeardownAgain

FixedArgsSpec == Init /\ [][FixedArgsNext]_vars

\* ------------------------------------------------------------- claims
\* the events that hand a body to setDesign
Applied == {"push", "fetchOk", "patchOk"}

\* C1: an inbound update (push message, poll/refresh/initial fetch result, patch
\* response) whose revision is not greater than the snapshot's leaves the
\* snapshot unchanged.
C1_StaleUpdateIsNoOp ==
    [][(/\ last'.op \in Applied
        /\ design # NullDesign
        /\ last'.data.revision <= design.revision) => design' = design]_vars

\* C2: while the instance is mounted the revision of the snapshot never
\* decreases from one state to the next.
C2_RevisionMonotonic ==
    [][(design # NullDesign /\ design' # NullDesign)
           => design'.revision >= design.revision]_vars

\* C3: a push message with a revision greater than the snapshot's yields the
\* snapshot overwritten key by key: every key of the message has the message's
\* value, every other key keeps its value, no key is added or lost, and the
\* revision is the message's.
C3_NewerPushOverlays ==
    [][(/\ last'.op = "push"
        /\ design # NullDesign
        /\ last'.data.revision > design.revision)
       => LET update == last'.data
          IN  /\ DOMAIN design' = (DOMAIN design) \cup (DOMAIN update)
              /\ \A k \in DOMAIN update : design'[k] = update[k]
              /\ \A k \in (DOMAIN design) \ (DOMAIN update) : design'[k] = design[k]
              /\ design'.revision = update.revision]_vars

\* C3 witness: a message without the area key and with a greater revision has
\* been merged into a snapshot that had an area, which it kept.
C3_Witness ==
    /\ last.op = "push"
    /\ "area" \notin DOMAIN last.data
    /\ last.prevRevision > 0
    /\ last.data.revision > last.prevRevision
    /\ "area" \in DOMAIN design
    /\ design.revision = last.data.revision

\* C4: the result of a poll-tick or refresh fetch that completes right after a
\* push message with a greater revision was applied is dropped: the snapshot
\* keeps the push message's fields and revision.
C4_SlowFetchDropped ==
    [][(/\ last.op = "push"
        /\ last'.op = "fetchOk"
        /\ last'.req.kind \in {"poll", "refresh"}
        /\ last'.data.revision < last.data.revision) => design' = design]_vars

\* C5: a response applied to the snapshot belongs to a request made for the
\* designId the hook is rendered with: nothing requested for a previous id is
\* applied after the id changed.
C5_NoStaleInstanceUpdate ==
    last.op \in Applied => last.req.id = designId

\* the live socket of a mounted hook with enableRealtime has closed
PushClosed == mounted /\ enableRealtime /\ socket.readyState = "CLOSED"

\* C6: with enableRealtime, once the socket has closed a poll timer is active
\* and the connection mode is poll, whatever autoUpdate is.
C6_FallbackOnClose ==
    PushClosed => /\ intervals # {}
                  /\ ConnectionMode(isRealtime, intervals) = "poll"

\* the result of a poll tick has just been delivered to the hook
PollDelivered == last.op \in {"fetchOk", "fetchFail"} /\ last.req.kind = "poll"

\* C7: the hook does not stay for ever with its socket closed and no poll
\* result delivered: once the socket has closed, the result of a poll tick is
\* eventually delivered (unless the hook leaves that situation: it is
\* unmounted, or rendered with other arguments that end or replace the socket's
\* effect).
C7_PollDeliversAfterClose == PushClosed ~> (PollDelivered \/ ~PushClosed)

\* C8: isRealtime as the consumer last saw it is true only while the socket is
\* open.
C8_PushOnlyWhileOpen ==
    isRealtime => (socket # NullSocket /\ socket.readyState = "OPEN")

\* C9: after the teardown there is no socket that is open or connecting, no
\* timer, and the mode (as the hook's return expression gives it for the
\* socket) is disconnected; running the cleanups again changes neither the
\* socket nor the timers.
C9_TeardownIdempotent ==
    /\ [](~mounted => /\ socket.readyState \notin {"CONNECTING", "OPEN"}
                      /\ intervals = {}
                      /\ ConnectionMode(IsRealtime(socket), intervals) = "disconnected")
    /\ [][last'.op = "teardown" => (socket' = socket /\ intervals' = intervals)]_vars

\* C9 witness: the cleanups have run a second time on a socket that the
\* unmount had closed while it was open or connecting.
C9_Witness ==
    /\ last.op = "teardown"
    /\ ~mounted
    /\ socket.readyState = "CLOSING"

\* C10: when the fetch made at construction resolves, loading is false and the
\* snapshot is the fetched body; when it fails before any response was stored,
\* error is set, loading is false and the snapshot is null.
C10_InitialFetch ==
    /\ (last.op = "fetchOk" /\ last.req.kind = "mount")
           => (design = last.data /\ ~loading)
    /\ (last.op = "fetchFail" /\ last.req.kind = "mount" /\ ~seeded)
           => (error # NullError /\ ~loading /\ design = NullDesign)

\* C11: once the fetch made at construction has resolved, the snapshot is not
\* null in any later state of the mounted hook: a step that delivers that
\* response yields a snapshot, and no step of the mounted hook (push message,
\* poll tick, refresh, updateDesign, whether it succeeds or fails) takes a
\* snapshot away.
C11_DesignNeverNullAgain ==
    [][(/\ mounted'
        /\ \/ design # NullDesign
           \/ last'.op = "fetchOk" /\ last'.req.kind = "mount")
       => design' # NullDesign]_vars

\* C11 witness: the construction fetch is no longer in flight, a response has
\* been stored, and a later refresh has just failed; the snapshot is there.
C11_Witness ==
    /\ mounted
    /\ seeded
    /\ ~BagIn([kind |-> "mount", id |-> 1], inflight)
    /\ last.op = "fetchFail"
    /\ last.req.kind = "refresh"
    /\ design # NullDesign

\* a fetch that drives loading is awaited: the one made at construction or the
\* one of a refresh(), for the designId of the current render
LoadingFetchOutstanding ==
    \E kind \in {"mount", "refresh"} : BagIn([kind |-> kind, id |-> designId], inflight)

\* C12: loading is true whenever the construction fetch or at least one
\* refresh() fetch is outstanding, whatever other fetch completed meanwhile.
C12_LoadingWhileOutstanding ==
    (mounted /\ LoadingFetchOutstanding) => loading

\* C13: of two refresh() fetches in flight together, the one that completes
\* second does not replace the result of the first with a body of a smaller
\* revision: the final snapshot is the one with the greater revision.
C13_OverlappingRefreshes ==
    [][(/\ last.op = "fetchOk" /\ last.req.kind = "refresh"
        /\ last'.op = "fetchOk" /\ last'.req.kind = "refresh"
        /\ last'.req.id = last.req.id
        /\ last'.data.revision < last.data.revision) => design' = design]_vars

\* C14: nothing of a patch shows in the snapshot when updateDesign is called,
\* and a patch response that arrives right after a push message or a fetch
\* result of a greater revision was applied does not replace that snapshot.
C14_PatchReconciled ==
    /\ [][last'.op = "patch" => design' = design]_vars
    /\ [][(/\ last.op \in {"push", "fetchOk"}
           /\ last'.op = "patchOk"
           /\ last'.data.revision < last.data.revision) => design' = design]_vars

\* C15: when updateDesign fails (its call rejects), error is set to the
\* failure and the snapshot is exactly what it was before the failure.
C15_PatchFailureKeepsSnapshot ==
    [][last'.op = "patchFail" => (design' = design /\ error' = "PatchError")]_vars

\* C15 witness: a PATCH has just been rejected for a mounted hook that holds
\* a snapshot.
C15_Witness ==
    /\ last.op = "patchFail"
    /\ mounted
    /\ seeded
    /\ design # NullDesign
    /\ error = "PatchError"

\* C16: validateChanges never changes the snapshot: not when it is called, not
\* when the response says valid, not when it reports violations, not when the
\* request fails.
C16_ValidateLeavesSnapshot ==
    [][last'.op \in {"validate", "validateOk", "validateFail"} => design' = design]_vars

\* C16 witness: a validation response reporting violations has just been
\* returned to the caller of a hook that holds a snapshot.
C16_Witness ==
    /\ last.op = "validateOk"
    /\ ~last.data.valid
    /\ mounted
    /\ design # NullDesign

\* C17: a poll tick whose fetch fails leaves the error the hook exposes as it
\* was before the failure.
C17_PollFailureNotSurfaced ==
    [][(last'.op = "fetchFail" /\ last'.req.kind = "poll") => error' = error]_vars

\* C18: an error event of the WebSocket is not surfaced: error is left as it
\* was, a poll timer is active afterwards, and a consumer that was shown the
\* snapshot is still shown it.
C18_ChannelErrorNotFatal ==
    [][(mounted /\ last'.op \in {"wsError", "wsOrphanError"})
       => /\ error' = error
          /\ intervals' # {}
          /\ DesignPreviewView(loading, error, design) = "design"
                 => DesignPreviewView(loading', error', design') = "design"]_vars

\* C20: an error that is set stays set through every step of the mounted hook
\* that is not the success of a fetch, refresh or updateDesign, and the success
\* of one of those leaves no error.
C20_ErrorUntilSuccess ==
    /\ [][(/\ mounted'
           /\ error # NullError
           /\ last'.op \notin {"fetchOk", "patchOk"}) => error' # NullError]_vars
    /\ [][last'.op \in {"fetchOk", "patchOk"} => error' = NullError]_vars

\* C19: a push message that is not a JSON object with a revision (text that
\* does not parse, or the JSON of a string, an array, a number or null) is
\* dropped: the snapshot is what it was, and the socket stays open.
C19_MalformedDropped ==
    [][last'.op = "malformed"
       => (design' = design /\ socket' = socket /\ socket'.readyState = "OPEN")]_vars

\* C21: a fetch that fails because the design does not exist is reported
\* (error is set when it is delivered), and the poll timer issues no further
\* tick for that id: the step after such a failure is not a tick for its id.
C21_NotFoundIsFatal ==
    /\ []((mounted /\ last.op = "fetchFail" /\ last.data.status = NotFound)
              => error # NullError)
    /\ [][(/\ last.op = "fetchFail"
           /\ last.data.status = NotFound
           /\ last'.op = "tick") => last'.req.id # last.req.id]_vars

\* the field-wise overlay of an update on a snapshot
Overlay(snapshot, update) ==
    LET s == Spread(snapshot)
    IN  [k \in (DOMAIN s) \cup (DOMAIN update) |->
            IF k \in DOMAIN update THEN update[k] ELSE s[k]]

\* C22: along a sequence of inbound updates (push messages, fetch results)
\* with strictly increasing revisions the snapshot is the overlay of the
\* updates in that order: each update newer than the snapshot yields the
\* overlay of the update on the snapshot, and applying it once more to the
\* result changes nothing.
C22_OverlayInRevisionOrder ==
    [][(/\ last'.op \in {"push", "fetchOk"}
        /\ last'.data.revision > RevisionOf(design))
       => /\ design' = Overlay(design, last'.data)
          /\ Overlay(design', last'.data) = design']_vars

\* C23: in every reachable state at most one poll timer is active, and it is
\* the one of the current designId: the timer of the previous arguments is
\* cleared before the effect creates the next one.
C23_AtMostOneTimer ==
    /\ Cardinality(intervals) <= 1
    /\ intervals \subseteq {designId}

\* C23 witness: the hook has been rendered with another designId while
\* polling, and the timer of the new id is the active one.
C23_Witness ==
    /\ last.op = "props"
    /\ designId = 2
    /\ intervals = {2}

\* the fetch of a poll tick has just failed
PollFailed == last.op = "fetchFail" /\ last.req.kind = "poll"

\* C24: a tick sends exactly one fetch and leaves the timer active; a tick
\* whose fetch fails leaves the timer active too, so that another tick fires
\* afterwards (unless the hook is unmounted); and the result of a tick that
\* succeeds becomes the snapshot.
C24_FailedTickKeepsTimer ==
    /\ [][last'.op = "tick"
          => (inflight' = Send(last'.req) /\ intervals' = intervals)]_vars
    /\ [][PollFailed' => (intervals' = intervals /\ last'.req.id \in intervals')]_vars
    /\ [][(last'.op = "fetchOk" /\ last'.req.kind = "poll")
          => design' = last'.data]_vars
    /\ PollFailed ~> (last.op = "tick" \/ ~mounted)

\* C24 witness: the timer has ticked again while error still holds the
\* failure of an earlier fetch.
C24_Witness ==
    /\ last.op = "tick"
    /\ error = "FetchError"
    /\ seeded
    /\ intervals = {1}

\* C25: with enableRealtime false from the first render on, there is never a
\* socket; a poll timer is active exactly when autoUpdate is true; and with
\* autoUpdate false the mode is disconnected and the snapshot of the mounted
\* hook changes only when the construction fetch, a refresh() or an
\* updateDesign succeeds.
C25_NoPushWhenDisabled ==
    /\ [](~enableRealtime
            => /\ socket = NullSocket
               /\ ~isRealtime
               /\ mounted => (intervals # {} <=> autoUpdate)
               /\ (mounted /\ ~autoUpdate)
                      => ConnectionMode(isRealtime, intervals) = "disconnected")
    /\ [][(~enableRealtime /\ ~autoUpdate /\ mounted' /\ design' # design)
          => /\ last'.op \in {"fetchOk", "patchOk"}
             /\ last'.req.kind \in {"mount", "refresh", "patch"}]_vars

\* C25 witness: without realtime and without autoUpdate a refresh() has just
\* delivered a snapshot, and there is neither a socket nor a timer.
C25_Witness ==
    /\ ~enableRealtime
    /\ ~autoUpdate
    /\ last.op = "fetchOk"
    /\ last.req.kind = "refresh"
    /\ socket = NullSocket
    /\ intervals = {}

C27_FetchReplaces ==
    last.op = "fetchOk"
        => /\ design = last.data
           /\ DOMAIN design = DOMAIN last.data
           /\ error = NullError
           /\ ~loading

\* C27 witness: a refresh or a poll tick has resolved with a body without area
\* over an earlier snapshot, and the snapshot has no area.
C27_Witness ==
    /\ last.op = "fetchOk"
    /\ last.req.kind \in {"poll", "refresh"}
    /\ last.prevRevision > 0
    /\ "area" \notin DOMAIN last.data
    /\ "area" \notin DOMAIN design

\* C28: every push message leaves loading and error as they were; one that
\* arrives while the snapshot is null yields a snapshot that is not null and
\* has exactly the message's keys and values, with loading still true if it
\* was.
C28_PushBeforeFirstFetch ==
    [][last'.op = "push"
       => /\ loading' = loading
          /\ error' = error
          /\ design = NullDesign
                 => /\ design' # NullDesign
                    /\ DOMAIN design' = DOMAIN last'.data
                    /\ design' = last'.data]_vars

\* C28 witness: a push message has been merged into a null snapshot while the
\* construction fetch is still awaited and loading is true.
C28_Witness ==
    /\ last.op = "push"
    /\ last.prevRevision = 0
    /\ ~seeded
    /\ BagIn([kind |-> "mount", id |-> 1], inflight)
    /\ loading
    /\ design = last.data

NotAskedToClose(s) == s.readyState \in {"CONNECTING", "OPEN"}

\* C30: the hook never holds more than one socket that has not been asked to
\* close: the socket an effect run replaces has had close() called on it by
\* the cleanup, a socket is created only by a run with enableRealtime true,
\* and with enableRealtime false or after the unmount the last socket has been
\* asked to close too.
C30_OneLiveSocket ==
    /\ [][(last'.op = "props" /\ last'.data # NoData)
          => last'.data.released \notin {"CONNECTING", "OPEN"}]_vars
    /\ [][(socket' # socket /\ NotAskedToClose(socket'))
          => (enableRealtime' /\ (socket'.readyState = "CONNECTING" => last'.op = "props"))]_vars
    /\ []((~mounted \/ ~enableRealtime) => ~NotAskedToClose(socket))

\* C30 witness: a render with another designId has replaced a socket that was
\* open or connecting; the cleanup had closed it, and the new one is
\* connecting.
C30_Witness ==
    /\ last.op = "props"
    /\ last.data # NoData
    /\ last.data.released = "CLOSING"
    /\ socket.readyState = "CONNECTING"
    /\ socket.id = 2

====
